---- MODULE Spec2Model ----
(***************************************************************************)
(* VaultPay escrow core: the users and transactions tables and the stored  *)
(* procedures create_transaction_with_escrow, update_transaction_status    *)
(* and process_expired_transactions of the initial schema migration,       *)
(* together with the transaction_notification_trigger of the push          *)
(* notification migration.                                                 *)
(*                                                                         *)
(* Execution model: every procedure call is one database transaction at    *)
(* the default isolation level (READ COMMITTED); no procedure sets another *)
(* level or takes a row lock with SELECT ... FOR UPDATE.  A SELECT reads   *)
(* the committed rows at the time it runs; an UPDATE is applied to the     *)
(* latest committed version of its row and holds the row until commit.     *)
(* A client call therefore is two steps: its leading SELECT (with the      *)
(* checks made on the values read), then its writes, applied at commit.    *)
(* The sweep is one transaction over several procedure calls: the rows it  *)
(* has written stay invisible to, and locked against, the clients until it *)
(* commits.  A client call that has updated a transactions row and waits   *)
(* for a users row the sweep holds, while the sweep waits for that          *)
(* transactions row, is a deadlock: the database aborts one of the two.     *)
(* Other lock cycles are not modelled.                                      *)
(***************************************************************************)
EXTENDS Integers, Sequences, FiniteSets, TLC

\* ---- bounds of the model ------------------------------------------------
NumUsers     == 2
NumClients   == 2
MaxTx        == 2
MaxAmount    == 1
MaxTimeLimit == 1
MaxTime      == 2
MaxOps       == 4
InitBalance  == 1
MaxConditions == 1

Users      == 1..NumUsers
Clients    == 1..NumClients
TxIds      == 1..MaxTx
AmountArgs == 0..MaxAmount
TimeLimits == 1..MaxTimeLimit
StatusArgs == {"pending", "accepted", "completed", "cancelled"}

\* The checklist of a new transaction: the completed flag of each condition,
\* at least one condition, none completed.
ConditionArgs == {[i \in 1..n |-> FALSE] : n \in 1..MaxConditions}

\* SQL NULL of a timestamp column, and of vault_id and vtid
NULL == 0 - 1

VARIABLES
  users,         \* public.users: id -> row
  transactions,  \* public.transactions: sequence of rows, id = index
  now,           \* the clock read by NOW()
  client,        \* per client connection: the call in progress and its locals
  sweep,         \* the process_expired_transactions job
  ops,           \* number of client calls that got past their checks
  manager,       \* the NotificationManager instance of one app
  service,       \* NotificationService of that app: timestamps, pushes, timers
  auth,          \* the auth store of one app and the session behind it
  device_tokens  \* public.device_tokens and the calls of save_device_token

\* The database with its clients, and the state of one app.
database == <<users, transactions, now, client, sweep, ops>>
app == <<manager, service, auth, device_tokens>>
vars == <<database, app>>

\* ---- rows -----------------------------------------------------------------
NewUser == [balance |-> InitBalance, escrow_balance |-> 0, unread_transactions |-> <<>>]

\* A client connection: pc is the position of its call, the p_ fields are the
\* call's parameters, record_status is transaction_record.status, result is
\* "ok" or the message of the exception raised.  When the call is made by a
\* handler of the app, handler names it, user is the signed-in user, p_index
\* the condition tapped and notified the notification the handler has sent.
IdleClient ==
  [pc |-> "idle", p_sender_id |-> 0, p_receiver_id |-> 0,
   p_amount |-> 0, p_conditions |-> <<>>, p_time_limit |-> 0,
   p_transaction_id |-> 0,
   p_new_status |-> "none", record_status |-> "none", result |-> "none",
   handler |-> "none", user |-> 0, p_index |-> 0, notified |-> "none"]

\* The call has ended: its locals are gone, the caller holds the outcome.
Returned(res) == [IdleClient EXCEPT !.pc = "done", !.result = res]

\* The database has aborted the call's transaction.
Aborted(res) == [IdleClient EXCEPT !.pc = "aborted", !.result = res]

\* update_transaction_status has left through its early RETURN.
ReturnedNoChange == [IdleClient EXCEPT !.pc = "no_change", !.result = "ok"]

\* The record of a call made by a handler: the handler awaits it and keeps
\* its transaction.
Resume(c, rec) ==
  IF c.handler = "none"
    THEN rec
    ELSE [rec EXCEPT !.handler = c.handler, !.user = c.user,
                     !.p_transaction_id = IF c.handler = "send"
                                            THEN rec.p_transaction_id
                                            ELSE c.p_transaction_id]

IdleSweep == [pc |-> "idle", cursor |-> {}, cur |-> 0, done |-> <<>>]

SeqToSet(s) == {s[i] : i \in 1..Len(s)}

\* ---- the sweep's uncommitted writes lock their rows -----------------------
SweepOpenTx == SeqToSet(sweep.done)

TxLocked(id) == id \in SweepOpenTx

UserLocked(u) ==
  \E id \in SweepOpenTx :
    u \in {transactions[id].sender_id, transactions[id].receiver_id}

\* ---- ledger and unread-list writes ----------------------------------------
AppendUnread_Nobody(u, who, id) == u

AppendUnread(u, who, id) ==
  [x \in DOMAIN u |->
     IF x \in who
       THEN [u[x] EXCEPT !.unread_transactions = Append(@, id)]
       ELSE u[x]]

MoveToEscrow_NoHold(u, s, a) ==
  [u EXCEPT ![s].balance = @ - a]

MoveToEscrow(u, s, a) ==
  [u EXCEPT ![s].balance = @ - a, ![s].escrow_balance = @ + a]

ReleaseFromEscrow_NoCredit(u, s, r, a) ==
  [u EXCEPT ![s].escrow_balance = @ - a]

ReleaseFromEscrow_ToSender(u, s, r, a) ==
  [u EXCEPT ![s].escrow_balance = @ - a, ![s].balance = @ + a]

ReleaseFromEscrow(u, s, r, a) ==
  LET u1 == [u EXCEPT ![s].escrow_balance = @ - a]
  IN  [u1 EXCEPT ![r].balance = @ + a]

ReturnToSender_KeepEscrow(u, s, a) ==
  [u EXCEPT ![s].balance = @ + a]

ReturnToSender(u, s, a) ==
  [u EXCEPT ![s].balance = @ + a, ![s].escrow_balance = @ - a]

NotifyTransactionUpdate_AcceptBoth(u, id, old, new, s, r) ==
  IF old # new
    THEN CASE new \in {"accepted", "completed", "cancelled"} ->
                AppendUnread(u, {s, r}, id)
           [] OTHER -> u
    ELSE u

\* AFTER UPDATE trigger on transactions
NotifyTransactionUpdate(u, id, old, new, s, r) ==
  IF old # new
    THEN CASE new = "accepted"  -> AppendUnread(u, {s}, id)
           [] new = "completed" -> AppendUnread(u, {s, r}, id)
           [] new = "cancelled" -> AppendUnread(u, {s, r}, id)
           [] OTHER             -> u
    ELSE u

\* ---- update_transaction_status --------------------------------------------
NoChangeNeeded_Never(status, new) == FALSE

NoChangeNeeded(status, new) == status = new

\* The body of the procedure after the leading SELECT: seen is the status the
\* SELECT read, u and txs the rows the UPDATEs find.
UpdateStatusWrites(u, txs, id, new, seen, t) ==
  LET row == txs[id]
      s   == row.sender_id
      r   == row.receiver_id
      a   == row.amount
      old == row.status
  IN CASE new = "accepted" ->
            LET txs1 == [txs EXCEPT ![id].status = "accepted", ![id].accepted_at = t]
                u1   == NotifyTransactionUpdate(u, id, old, "accepted", s, r)
            IN [error |-> "ok", transactions |-> txs1,
                users |-> AppendUnread(u1, {s}, id)]
       [] new = "completed" ->
            IF seen # "accepted"
              THEN [error |-> "Transaction must be accepted before completion",
                    transactions |-> txs, users |-> u]
              ELSE
                LET txs1 == [txs EXCEPT ![id].status = "completed", ![id].completed_at = t]
                    u1   == NotifyTransactionUpdate(u, id, old, "completed", s, r)
                    u2   == ReleaseFromEscrow(u1, s, r, a)
                IN [error |-> "ok", transactions |-> txs1,
                    users |-> AppendUnread(u2, {r}, id)]
       [] new = "cancelled" ->
            LET txs1 == [txs EXCEPT ![id].status = "cancelled", ![id].cancelled_at = t]
                u1   == NotifyTransactionUpdate(u, id, old, "cancelled", s, r)
                u2   == ReturnToSender(u1, s, a)
            IN [error |-> "ok", transactions |-> txs1,
                users |-> AppendUnread(u2, {s, r}, id)]
       [] OTHER ->
            [error |-> "Invalid status", transactions |-> txs, users |-> u]

\* ---- create_transaction_with_escrow ---------------------------------------
InsufficientBalance_Never(balance, amount) == FALSE

InsufficientBalance(balance, amount) == balance < amount

\* CHECK (amount > 0) and CONSTRAINT different_users of the transactions table
RowConstraints(s, r, a) == a > 0 /\ s # r

NewTransaction(s, r, a, c, tl, t) ==
  [sender_id |-> s, receiver_id |-> r, amount |-> a, status |-> "pending",
   conditions |-> c, time_limit |-> tl, created_at |-> t, accepted_at |-> NULL,
   completed_at |-> NULL, cancelled_at |-> NULL]

InFlightCreates == Cardinality({p \in Clients : client[p].pc = "create_write"})

\* ---- Init -----------------------------------------------------------------
\* ---- one app at start ------------------------------------------------------
\* Date.now() when the app starts, in seconds: later than any cooldown after
\* the timestamp 0 of a user never notified.
Epoch == 3600

\* The types of NOTIFICATION_PRIORITIES the model queues: one of each priority.
NotificationTypes == {"transaction_pending", "transaction_cancelled", "reminder"}

NoNotification ==
  [id |-> 0, userId |-> 0, type |-> "none", priority |-> "none",
   timestamp |-> 0, attempts |-> 0]

\* new NotificationManager(): queue, processing, userLastNotified; pc is the
\* position of the processQueue chain, notification the one it is sending,
\* due the time of its setTimeout; sent and dropped are the ids of the
\* notifications handed to sendPushNotification and of those given up.
InitManager ==
  [queue |-> <<>>, processing |-> FALSE,
   userLastNotified |-> [u \in Users |-> [t \in NotificationTypes |-> 0]],
   pc |-> "idle", notification |-> NoNotification, due |-> 0,
   sent |-> {}, dropped |-> {}]

\* NotificationService of the app: global.notificationTimestamps, the calls
\* of sendPushNotification in progress or waiting for their setTimeout, and
\* the pushes handed to the push service: their ids, and for each user the
\* time of the last one; skipped holds the ids of the pushes put off.
InitService ==
  [notificationTimestamps |-> [u \in Users |-> 0], calls |-> {},
   pushed |-> {}, skipped |-> {}, dispatched |-> [u \in Users |-> 0]]

\* create<AuthState>(...): the initial store; user 0 is null and any other
\* value is the version of the row of public.users held.  With it: whether
\* the auth client holds a session, the version of the account's row in the
\* database, the setIntervals of setCooldown that run, whether the
\* onAuthStateChange handler is registered, and where each function that
\* waits for the auth service or the database, and that handler, waits.
InitAuth ==
  [user |-> 0, isAuthenticated |-> FALSE, loading |-> FALSE, cooldown |-> 0,
   session |-> FALSE, row |-> 1, intervals |-> 0, listening |-> FALSE,
   pc |-> [f \in {"initialize", "signIn", "login", "signOut",
                  "refreshUserData", "onAuthStateChange"} |-> "idle"]]

\* A session that is not in a call of save_device_token; result holds what
\* its last call returned.
IdleSave ==
  [pc |-> "idle", p_user_id |-> 0, p_token |-> 0, p_device_name |-> 0,
   token_id |-> 0, result |-> 0]

\* public.device_tokens, empty, and no call of save_device_token; the id of
\* a row is its place in rows.
InitDeviceTokens == [rows |-> <<>>, calls |-> [p \in Clients |-> IdleSave]]

AppAtStart ==
  /\ manager = InitManager
  /\ service = InitService
  /\ auth = InitAuth
  /\ device_tokens = InitDeviceTokens

Init ==
  /\ users = [u \in Users |-> NewUser]
  /\ transactions = <<>>
  /\ now = 0
  /\ client = [p \in Clients |-> IdleClient]
  /\ sweep = IdleSweep
  /\ ops = 0
  /\ AppAtStart

\* ---- client actions -------------------------------------------------------
AtRest(p) ==
  /\ client[p].pc \in {"idle", "no_change", "done", "aborted"}
  /\ client[p].handler = "none"

\* create_transaction_with_escrow up to the balance check; k is what the call
\* adds to ops.
CreateBegin(p, s, r, a, cs, tl, k) ==
  /\ Len(transactions) + InFlightCreates < MaxTx
  /\ LET bal == users[s].balance
         c0  == [IdleClient EXCEPT !.p_sender_id = s, !.p_receiver_id = r,
                   !.p_amount = a, !.p_conditions = cs, !.p_time_limit = tl]
     IN IF InsufficientBalance(bal, a)
          THEN /\ client' = [client EXCEPT ![p] =
                    Resume(client[p], Returned("Insufficient balance"))]
               /\ ops' = ops
          ELSE /\ ops + k <= MaxOps
               /\ client' = [client EXCEPT ![p] =
                    Resume(client[p], [c0 EXCEPT !.pc = "create_write"])]
               /\ ops' = ops + k
  /\ UNCHANGED <<users, transactions, now, sweep, app>>

\* A client calls create_transaction_with_escrow.
CreateCall(p, s, r, a, cs, tl) ==
  /\ AtRest(p)
  /\ CreateBegin(p, s, r, a, cs, tl, 1)

\* The UPDATE, INSERT and unread UPDATE of create_transaction_with_escrow, and
\* the commit; a constraint violation of the INSERT rolls everything back.
CreateWrite(p) ==
  LET c == client[p]
      s == c.p_sender_id
      r == c.p_receiver_id
      a == c.p_amount
  IN /\ c.pc = "create_write"
     /\ ~UserLocked(s)
     /\ IF RowConstraints(s, r, a)
          THEN /\ ~UserLocked(r)
               /\ transactions' = Append(transactions,
                                   NewTransaction(s, r, a, c.p_conditions,
                                                  c.p_time_limit, now))
               /\ users' = AppendUnread(MoveToEscrow(users, s, a), {r},
                                        Len(transactions) + 1)
               /\ client' = [client EXCEPT ![p] =
                    Resume(c, [Returned("ok") EXCEPT !.p_transaction_id =
                                 IF c.handler = "none" THEN 0
                                 ELSE Len(transactions) + 1])]
          ELSE /\ client' = [client EXCEPT ![p] =
                    Resume(c, Returned("check_violation"))]
               /\ UNCHANGED <<users, transactions, app>>
     /\ UNCHANGED <<now, sweep, ops, app>>

\* update_transaction_status up to the RETURN of the no-change case; k is
\* what the call adds to ops.
UpdateStatusBegin(p, id, new, k) ==
  /\ LET c0 == [IdleClient EXCEPT !.p_transaction_id = id, !.p_new_status = new]
     IN IF id \notin DOMAIN transactions
          THEN /\ client' = [client EXCEPT ![p] =
                    Resume(client[p], Returned("Transaction not found"))]
               /\ ops' = ops
          ELSE IF NoChangeNeeded(transactions[id].status, new)
            THEN /\ client' = [client EXCEPT ![p] =
                      Resume(client[p], ReturnedNoChange)]
                 /\ ops' = ops
            ELSE /\ ops + k <= MaxOps
                 /\ client' = [client EXCEPT ![p] =
                      Resume(client[p],
                        [c0 EXCEPT !.pc = "update_write",
                                   !.record_status = transactions[id].status])]
                 /\ ops' = ops + k
  /\ UNCHANGED <<users, transactions, now, sweep, app>>

\* A client calls update_transaction_status.
UpdateStatusCall(p, id, new) ==
  /\ AtRest(p)
  /\ UpdateStatusBegin(p, id, new, 1)

\* The writes of update_transaction_status and the commit.
UpdateStatusWrite(p) ==
  LET c   == client[p]
      id  == c.p_transaction_id
      out == UpdateStatusWrites(users, transactions, id, c.p_new_status,
                                c.record_status, now)
  IN /\ c.pc = "update_write"
     /\ ~TxLocked(id)
     /\ ~UserLocked(transactions[id].sender_id)
     /\ ~UserLocked(transactions[id].receiver_id)
     /\ users' = out.users
     /\ transactions' = out.transactions
     /\ client' = [client EXCEPT ![p] =
          Resume(c, Returned(out.error))]
     /\ UNCHANGED <<now, sweep, ops, app>>

\* ---- process_expired_transactions -----------------------------------------
Expired(row, t) == row.status = "pending" /\ row.created_at + row.time_limit < t

\* OPEN expired_cursor
SweepOpen ==
  /\ sweep.pc = "idle"
  /\ sweep' = [pc |-> "loop",
               cursor |-> {id \in DOMAIN transactions : Expired(transactions[id], now)},
               cur |-> 0, done |-> <<>>]
  /\ UNCHANGED <<users, transactions, now, client, ops, app>>

\* FETCH the next row and run update_transaction_status(id, 'cancelled') up to
\* the RETURN of the no-change case.
SweepFetch(id) ==
  /\ sweep.pc = "loop"
  /\ id \in sweep.cursor
  /\ sweep' = IF NoChangeNeeded(transactions[id].status, "cancelled")
                THEN [sweep EXCEPT !.cursor = @ \ {id}]
                ELSE [sweep EXCEPT !.cursor = @ \ {id}, !.cur = id, !.pc = "write"]
  /\ UNCHANGED <<users, transactions, now, client, ops, app>>

\* The writes of that call: held by the sweep's transaction until it commits.
SweepWrite ==
  /\ sweep.pc = "write"
  /\ sweep' = [sweep EXCEPT !.done = Append(@, sweep.cur), !.cur = 0, !.pc = "loop"]
  /\ UNCHANGED <<users, transactions, now, client, ops, app>>

RECURSIVE SweepApply_StatusOnly(_, _, _, _)
SweepApply_StatusOnly(u, txs, ids, t) ==
  IF ids = <<>>
    THEN [users |-> u, transactions |-> txs]
    ELSE SweepApply_StatusOnly(u,
           [txs EXCEPT ![Head(ids)].status = "cancelled",
                       ![Head(ids)].cancelled_at = t],
           Tail(ids), t)

RECURSIVE SweepApply(_, _, _, _)
SweepApply(u, txs, ids, t) ==
  IF ids = <<>>
    THEN [users |-> u, transactions |-> txs]
    ELSE LET out == UpdateStatusWrites(u, txs, Head(ids), "cancelled",
                                       txs[Head(ids)].status, t)
         IN SweepApply(out.users, out.transactions, Tail(ids), t)

\* End of the loop: the job's transaction commits.
SweepCommit ==
  /\ sweep.pc = "loop"
  /\ sweep.cursor = {}
  /\ LET out == SweepApply(users, transactions, sweep.done, now)
     IN /\ users' = out.users
        /\ transactions' = out.transactions
  /\ sweep' = IdleSweep
  /\ UNCHANGED <<now, client, ops, app>>

\* ---- deadlock between the sweep and a client call -------------------------
\* The call's branch executes its UPDATE of the transactions row.
ReachesUpdate(c) ==
  \/ c.p_new_status \in {"accepted", "cancelled"}
  \/ c.p_new_status = "completed" /\ c.record_status = "accepted"

\* The users rows the trigger and the branch update after that.
UsersWritten(new, s, r) == IF new = "accepted" THEN {s} ELSE {s, r}

\* Client p holds the row the sweep is about to update and waits for a users
\* row the sweep has updated.
Deadlocked(p) ==
  /\ sweep.pc = "write"
  /\ client[p].pc = "update_write"
  /\ client[p].p_transaction_id = sweep.cur
  /\ ReachesUpdate(client[p])
  /\ \E u \in UsersWritten(client[p].p_new_status,
                            transactions[sweep.cur].sender_id,
                            transactions[sweep.cur].receiver_id) : UserLocked(u)

\* The database aborts the sweep: the loop has no exception handler, the
\* error leaves process_expired_transactions and its transaction rolls back.
SweepDeadlockAbortsSweep(p) ==
  /\ Deadlocked(p)
  /\ sweep' = IdleSweep
  /\ UNCHANGED <<users, transactions, now, client, ops, app>>

\* The database aborts the client's call.
SweepDeadlockAbortsClient(p) ==
  /\ Deadlocked(p)
  /\ client' = [client EXCEPT ![p] =
       Resume(client[p], Aborted("deadlock detected"))]
  /\ UNCHANGED <<users, transactions, now, sweep, ops, app>>

\* ---- time -----------------------------------------------------------------
\* The clock counts hours and a call lasts far less: NOW(), the start time of a
\* call's transaction, is the clock at each of its steps.
Tick ==
  /\ now < MaxTime
  /\ \A p \in Clients : AtRest(p)
  /\ sweep.pc = "idle"
  /\ now' = now + 1
  /\ UNCHANGED <<users, transactions, client, sweep, ops, app>>

Next ==
  \/ \E p \in Clients, s \in Users, r \in Users, a \in AmountArgs,
        cs \in ConditionArgs, tl \in TimeLimits :
       CreateCall(p, s, r, a, cs, tl)
  \/ \E p \in Clients : CreateWrite(p)
  \/ \E p \in Clients, id \in TxIds, new \in StatusArgs : UpdateStatusCall(p, id, new)
  \/ \E p \in Clients : UpdateStatusWrite(p)
  \/ SweepOpen
  \/ \E id \in TxIds : SweepFetch(id)
  \/ SweepWrite
  \/ SweepCommit
  \/ \E p \in Clients : SweepDeadlockAbortsSweep(p)
  \/ \E p \in Clients : SweepDeadlockAbortsClient(p)
  \/ Tick

Spec == Init /\ [][Next]_vars

\* ---- N concurrent create calls of one sender for its whole balance --------
MaxBalanceDS == 2

InitDS ==
  /\ users \in [Users -> {[NewUser EXCEPT !.balance = b] : b \in 1..MaxBalanceDS}]
  /\ transactions = <<>>
  /\ now = 0
  /\ client = [p \in Clients |-> IdleClient]
  /\ sweep = IdleSweep
  /\ ops = 0
  /\ AppAtStart

InFlightDS == {p \in Clients : client[p].pc = "create_write"}

\* Every call of the run is by sender s for amount a, the sender's balance
\* when the run starts.
SameCallDS(s, a) ==
  IF transactions # <<>>
    THEN s = transactions[1].sender_id /\ a = transactions[1].amount
    ELSE IF InFlightDS # {}
      THEN \A q \in InFlightDS : client[q].p_sender_id = s /\ client[q].p_amount = a
      ELSE a = users[s].balance

CreateCallDS(p) ==
  /\ client[p].pc = "idle"
  /\ \E s \in Users, r \in Users, a \in 1..MaxBalanceDS,
        cs \in ConditionArgs, tl \in TimeLimits :
       /\ r # s
       /\ SameCallDS(s, a)
       /\ CreateCall(p, s, r, a, cs, tl)

NextDS ==
  \/ \E p \in Clients : CreateCallDS(p)
  \/ \E p \in Clients : CreateWrite(p)
  \/ Tick

SpecDS == InitDS /\ [][NextDS]_vars

\* ---- create_transaction_with_escrow called with any checklist ----------------
\* p_conditions is JSONB without a constraint: the empty checklist included.
AnyConditionArgs == {[i \in 1..n |-> FALSE] : n \in 0..MaxConditions}

NextArgs ==
  \/ \E p \in Clients, s \in Users, r \in Users, a \in AmountArgs,
        cs \in AnyConditionArgs, tl \in TimeLimits :
       CreateCall(p, s, r, a, cs, tl)
  \/ \E p \in Clients : CreateWrite(p)

SpecArgs == Init /\ [][NextArgs]_vars

\* ---- the condition checklist of the transaction details view ---------------
MaxConditionsApp == 2

\* newConditions.every(c => c.completed)
AllConditionsMet(cs) == \A i \in DOMAIN cs : cs[i]

\* updateTransaction(id, {conditions}) of the storage layer: writes the
\* checklist of a transaction that is accepted, fails otherwise.
UpdateConditions(txs, id, cs) ==
  IF txs[id].status # "accepted"
    THEN [error |-> "NotAcceptedState", transactions |-> txs]
    ELSE [error |-> "ok", transactions |-> [txs EXCEPT ![id].conditions = cs]]

\* updateTransaction(id, {status}) of the storage layer: the call of
\* update_transaction_status, made in the course of a handler.
UpdateTransactionStatus(p, id, new) == UpdateStatusBegin(p, id, new, 0)

\* One transaction with a checklist of MaxConditionsApp conditions, created
\* by user 1 for user 2 and accepted.
InitApp ==
  LET c0   == [i \in 1..MaxConditionsApp |-> FALSE]
      txs0 == <<NewTransaction(1, 2, MaxAmount, c0, MaxTimeLimit, 0)>>
      u0   == AppendUnread(MoveToEscrow([u \in Users |-> NewUser], 1, MaxAmount),
                           {2}, 1)
      out  == UpdateStatusWrites(u0, txs0, 1, "accepted", "pending", 0)
  IN /\ users = out.users
     /\ transactions = out.transactions
     /\ now = 0
     /\ client = [p \in Clients |-> IdleClient]
     /\ sweep = IdleSweep
     /\ ops = 0
  /\ AppAtStart

\* ---- the handlers of the app ---------------------------------------------
\* The props of a handler are the rows as they are when it starts; the calls
\* it awaits run later, each in its own step.

\* isExpired of the transaction details view
IsExpired(row, t) == t >= row.created_at + row.time_limit

\* try { notify } catch (e) { console.error(e) }: what the handler goes on
\* with after the block, res being its outcome so far.
AfterNotification_Rethrow(res, thrown) == IF thrown THEN "Failed" ELSE res

AfterNotification(res, thrown) == res

\* What has been handed to the notification manager.
Notified(kind, thrown) == IF thrown THEN "failed" ELSE kind

\* The notification each handler sends after its awaited call.
HandlerEvent(h) ==
  CASE h = "send"   -> "transaction_pending"
    [] h = "accept" -> "transaction_accepted"
    [] h = "expire" -> "transaction_cancelled"
    [] h = "mark"   -> "transaction_completed"

\* updateUser(id, {unread_transactions: ids}) of the storage layer: sets the
\* column.
UpdateUser(u, who, ids) == [u EXCEPT ![who].unread_transactions = ids]

\* saveTransaction(transaction) of the storage layer: the call of
\* create_transaction_with_escrow.
SaveTransaction(p, s, r, a, cs, tl) == CreateBegin(p, s, r, a, cs, tl, 0)

PendingSends ==
  Cardinality({p \in Clients :
                 client[p].pc = "handler_rpc" /\ client[p].handler = "send"})

\* handleSendMoney up to saveTransaction: receiver found and not the user,
\* checklist and time limit valid, amount positive and within the balance
\* the app holds.
HandleSendMoney(p, actor, r, a, cs, tl) ==
  /\ AtRest(p)
  /\ ops < MaxOps
  /\ Len(transactions) + InFlightCreates + PendingSends < MaxTx
  /\ r # actor
  /\ Len(cs) >= 1
  /\ tl >= 1
  /\ a > 0
  /\ ~(a > users[actor].balance)
  /\ client' = [client EXCEPT ![p] =
       [IdleClient EXCEPT !.pc = "handler_rpc", !.handler = "send",
                          !.user = actor, !.p_sender_id = actor,
                          !.p_receiver_id = r, !.p_amount = a,
                          !.p_conditions = cs, !.p_time_limit = tl]]
  /\ ops' = ops + 1
  /\ UNCHANGED <<users, transactions, now, sweep, app>>

\* The accept button, shown to the receiver of a pending transaction that is
\* not expired.
HandleAcceptTransaction(p, actor, id) ==
  /\ AtRest(p)
  /\ ops < MaxOps
  /\ id \in DOMAIN transactions
  /\ actor = transactions[id].receiver_id
  /\ transactions[id].status = "pending"
  /\ ~IsExpired(transactions[id], now)
  /\ client' = [client EXCEPT ![p] =
       [IdleClient EXCEPT !.pc = "handler_rpc", !.handler = "accept",
                          !.user = actor, !.p_transaction_id = id]]
  /\ ops' = ops + 1
  /\ UNCHANGED <<users, transactions, now, sweep, app>>

\* checkExpiration, run when a party opens the details of a pending
\* transaction that is expired.
CheckExpiration(p, actor, id) ==
  /\ AtRest(p)
  /\ ops < MaxOps
  /\ id \in DOMAIN transactions
  /\ actor \in {transactions[id].sender_id, transactions[id].receiver_id}
  /\ IsExpired(transactions[id], now)
  /\ transactions[id].status = "pending"
  /\ client' = [client EXCEPT ![p] =
       [IdleClient EXCEPT !.pc = "handler_rpc", !.handler = "expire",
                          !.user = actor, !.p_transaction_id = id]]
  /\ ops' = ops + 1
  /\ UNCHANGED <<users, transactions, now, sweep, app>>

\* The awaited call of the three handlers above.
HandlerRpc(p) ==
  LET c == client[p]
  IN /\ c.pc = "handler_rpc"
     /\ CASE c.handler = "send" ->
               SaveTransaction(p, c.p_sender_id, c.p_receiver_id, c.p_amount,
                               c.p_conditions, c.p_time_limit)
          [] c.handler = "accept" ->
               UpdateTransactionStatus(p, c.p_transaction_id, "accepted")
          [] c.handler = "expire" ->
               UpdateTransactionStatus(p, c.p_transaction_id, "cancelled")

HandleMarkCondition_AnyUser(p, actor, id, index) ==
  /\ AtRest(p)
  /\ ops < MaxOps
  /\ id \in DOMAIN transactions
  /\ index \in DOMAIN transactions[id].conditions
  /\ transactions[id].status = "accepted"
  /\ LET newConditions == [transactions[id].conditions EXCEPT ![index] = ~@]
     IN client' = [client EXCEPT ![p] =
          [IdleClient EXCEPT !.pc = "mark_write", !.handler = "mark",
                             !.user = actor, !.p_transaction_id = id,
                             !.p_index = index, !.p_conditions = newConditions]]
  /\ ops' = ops + 1
  /\ UNCHANGED <<users, transactions, now, sweep, app>>

\* handleMarkCondition up to its first await: the sender taps condition
\* index of transaction id, which the view shows as accepted.
HandleMarkCondition(p, actor, id, index) ==
  /\ AtRest(p)
  /\ ops < MaxOps
  /\ id \in DOMAIN transactions
  /\ index \in DOMAIN transactions[id].conditions
  /\ actor = transactions[id].sender_id
  /\ transactions[id].status = "accepted"
  /\ LET newConditions == [transactions[id].conditions EXCEPT ![index] = ~@]
     IN client' = [client EXCEPT ![p] =
          [IdleClient EXCEPT !.pc = "mark_write", !.handler = "mark",
                             !.user = actor, !.p_transaction_id = id,
                             !.p_index = index, !.p_conditions = newConditions]]
  /\ ops' = ops + 1
  /\ UNCHANGED <<users, transactions, now, sweep, app>>

\* await updateTransaction(id, {conditions: newConditions}), the notification
\* of a condition marked completed, then the test of allConditionsMet.
MarkConditionWrite(p, thrown) ==
  LET c         == client[p]
      out       == UpdateConditions(transactions, c.p_transaction_id, c.p_conditions)
      completed == c.p_conditions[c.p_index]
      res       == AfterNotification("ok", completed /\ thrown)
      sent      == IF completed THEN Notified("condition_updated", thrown)
                                ELSE "none"
  IN /\ c.pc = "mark_write"
     /\ completed \/ ~thrown
     /\ transactions' = out.transactions
     /\ client' = [client EXCEPT ![p] =
          IF out.error # "ok"
            THEN Returned(out.error)
            ELSE IF res # "ok"
              THEN [Returned(res) EXCEPT !.notified = sent]
              ELSE IF AllConditionsMet(c.p_conditions)
                THEN [IdleClient EXCEPT !.pc = "mark_complete",
                                        !.handler = "mark", !.user = c.user,
                                        !.p_transaction_id = c.p_transaction_id,
                                        !.notified = sent]
                ELSE [Returned("ok") EXCEPT !.notified = sent]]
     /\ UNCHANGED <<users, now, sweep, ops, app>>

\* await updateTransaction(id, {status: 'completed'})
MarkConditionComplete(p) ==
  /\ client[p].pc = "mark_complete"
  /\ UpdateTransactionStatus(p, client[p].p_transaction_id, "completed")

\* The handler after its awaited call: the catch when the call has failed,
\* else the block that notifies the other party and, in handleSendMoney and
\* handleAcceptTransaction, sets that party's unread list; failing is the
\* statement of the block that throws.
HandlerReturn(p, failing) ==
  LET c    == client[p]
      id   == c.p_transaction_id
      sent == Notified(HandlerEvent(c.handler), failing = "notify")
      who  == IF c.handler = "send" THEN transactions[id].receiver_id
                                    ELSE transactions[id].sender_id
      set  == CASE c.handler = "send"   -> failing = "none"
                [] c.handler = "accept" -> failing # "updateUser"
                [] OTHER                -> FALSE
  IN /\ c.handler # "none"
     /\ c.pc \in {"done", "no_change", "aborted"}
     /\ IF c.result # "ok"
          THEN /\ failing = "none"
               /\ client' = [client EXCEPT ![p] = Returned("Failed")]
               /\ users' = users
          ELSE /\ failing = "updateUser" => c.handler \in {"send", "accept"}
               /\ client' = [client EXCEPT ![p] =
                    [Returned(AfterNotification("ok", failing # "none"))
                       EXCEPT !.notified =
                         IF c.handler = "accept" /\ failing = "updateUser"
                           THEN "none" ELSE sent]]
               /\ users' = IF set THEN UpdateUser(users, who, <<id>>) ELSE users
     /\ UNCHANGED <<transactions, now, sweep, ops, app>>

NextApp ==
  \/ \E p \in Clients, actor \in Users, r \in Users, a \in AmountArgs,
        cs \in ConditionArgs, tl \in TimeLimits :
       HandleSendMoney(p, actor, r, a, cs, tl)
  \/ \E p \in Clients, actor \in Users, id \in TxIds :
       HandleAcceptTransaction(p, actor, id)
  \/ \E p \in Clients, actor \in Users, id \in TxIds : CheckExpiration(p, actor, id)
  \/ \E p \in Clients : HandlerRpc(p)
  \/ \E p \in Clients, actor \in Users, id \in TxIds, index \in 1..MaxConditionsApp :
       HandleMarkCondition(p, actor, id, index)
  \/ \E p \in Clients, thrown \in BOOLEAN : MarkConditionWrite(p, thrown)
  \/ \E p \in Clients : MarkConditionComplete(p)
  \/ \E p \in Clients, failing \in {"none", "notify", "updateUser"} :
       HandlerReturn(p, failing)
  \/ \E p \in Clients, id \in TxIds : UpdateStatusCall(p, id, "cancelled")
  \/ \E p \in Clients : UpdateStatusWrite(p)
  \/ \E p \in Clients : CreateWrite(p)
  \/ Tick

SpecApp == InitApp /\ [][NextApp]_vars

\* ---- vault_id and vtid --------------------------------------------------
\* The codes of the rows alone: public.users and public.transactions are the
\* sequences of their rows' vault_id and vtid, and a session inserts one row
\* at a time. MD5(RANDOM()) is any code of a space of MaxCodes codes.
MaxCodes == 3

MaxInserts == 5

Codes == 1..MaxCodes

IdleSession ==
  [pc |-> "idle", new_vid |-> NULL, vid_exists |-> FALSE,
   new_vtid |-> NULL, vtid_exists |-> FALSE, result |-> "none"]

SessionDone(res) == [IdleSession EXCEPT !.pc = "done", !.result = res]

SessionAtRest(p) == client[p].pc \in {"idle", "done"}

CodeExists_Never(codes, code) == FALSE

\* SELECT EXISTS(SELECT 1 FROM ... WHERE vault_id = new_vid), and the same
\* for vtid
CodeExists(codes, code) == \E i \in 1..Len(codes) : codes[i] = code

\* vault_id TEXT NOT NULL UNIQUE, vtid TEXT NOT NULL UNIQUE
UniqueViolation(codes, code) == \E i \in 1..Len(codes) : codes[i] = code

InitId ==
  /\ users = <<>>
  /\ transactions = <<>>
  /\ now = 0
  /\ client = [p \in Clients |-> IdleSession]
  /\ sweep = IdleSweep
  /\ ops = 0
  /\ AppAtStart

\* INSERT INTO public.users with vault_id given or NULL: set_vault_id_trigger
\* fires WHEN (NEW.vault_id IS NULL).
InsertUserCall(p, given) ==
  /\ SessionAtRest(p)
  /\ ops < MaxInserts
  /\ client' = [client EXCEPT ![p] =
       IF given = NULL
         THEN [IdleSession EXCEPT !.pc = "generate_vid"]
         ELSE [IdleSession EXCEPT !.pc = "insert_user", !.new_vid = given]]
  /\ ops' = ops + 1
  /\ UNCHANGED <<users, transactions, now, sweep, app>>

\* One turn of the loop of generate_vid: a random code, the check, EXIT WHEN
\* NOT vid_exists.
GenerateVid(p, code) ==
  LET c      == client[p]
      exists == CodeExists(users, code)
  IN /\ c.pc = "generate_vid"
     /\ client' = [client EXCEPT ![p] =
          [c EXCEPT !.new_vid = code, !.vid_exists = exists,
                    !.pc = IF exists THEN "generate_vid" ELSE "insert_user"]]
     /\ UNCHANGED <<users, transactions, now, sweep, ops, app>>

\* The row goes into public.users, or the insert fails on the UNIQUE
\* constraint of vault_id.
InsertUser(p) ==
  LET c == client[p]
  IN /\ c.pc = "insert_user"
     /\ IF UniqueViolation(users, c.new_vid)
          THEN /\ users' = users
               /\ client' = [client EXCEPT ![p] = SessionDone("unique_violation")]
          ELSE /\ users' = Append(users, c.new_vid)
               /\ client' = [client EXCEPT ![p] = SessionDone("ok")]
     /\ UNCHANGED <<transactions, now, sweep, ops, app>>

\* INSERT INTO public.transactions with vtid given or NULL (set_vtid_trigger),
\* and create_transaction_with_escrow, which calls generate_vtid itself before
\* its INSERT.
InsertTransactionCall(p, given) ==
  /\ SessionAtRest(p)
  /\ ops < MaxInserts
  /\ client' = [client EXCEPT ![p] =
       IF given = NULL
         THEN [IdleSession EXCEPT !.pc = "generate_vtid"]
         ELSE [IdleSession EXCEPT !.pc = "insert_transaction", !.new_vtid = given]]
  /\ ops' = ops + 1
  /\ UNCHANGED <<users, transactions, now, sweep, app>>

\* One turn of the loop of generate_vtid.
GenerateVtid(p, code) ==
  LET c      == client[p]
      exists == CodeExists(transactions, code)
  IN /\ c.pc = "generate_vtid"
     /\ client' = [client EXCEPT ![p] =
          [c EXCEPT !.new_vtid = code, !.vtid_exists = exists,
                    !.pc = IF exists THEN "generate_vtid"
                                     ELSE "insert_transaction"]]
     /\ UNCHANGED <<users, transactions, now, sweep, ops, app>>

\* The row goes into public.transactions, or the insert fails on the UNIQUE
\* constraint of vtid.
InsertTransaction(p) ==
  LET c == client[p]
  IN /\ c.pc = "insert_transaction"
     /\ IF UniqueViolation(transactions, c.new_vtid)
          THEN /\ transactions' = transactions
               /\ client' = [client EXCEPT ![p] = SessionDone("unique_violation")]
          ELSE /\ transactions' = Append(transactions, c.new_vtid)
               /\ client' = [client EXCEPT ![p] = SessionDone("ok")]
     /\ UNCHANGED <<users, now, sweep, ops, app>>

NextId ==
  \/ \E p \in Clients, given \in Codes \cup {NULL} : InsertUserCall(p, given)
  \/ \E p \in Clients, code \in Codes : GenerateVid(p, code)
  \/ \E p \in Clients : InsertUser(p)
  \/ \E p \in Clients, given \in Codes \cup {NULL} : InsertTransactionCall(p, given)
  \/ \E p \in Clients, code \in Codes : GenerateVtid(p, code)
  \/ \E p \in Clients : InsertTransaction(p)

SpecId == InitId /\ [][NextId]_vars

\* ---- NotificationManager and NotificationService of one app ----------------
\* One JavaScript thread: a function runs to its next await without another
\* one in between.  now is Date.now() in seconds, starting at Epoch; the
\* clock moves to a later one of the instants Epoch + Elapsed.  A timer
\* fires at or after its time.  User 1 has a device token, user 2 has none.
MaxNotifications == 3

Elapsed == {0, 1, 30, 900, 3600}

\* NOTIFICATION_PRIORITIES
NOTIFICATION_PRIORITIES(type) ==
  CASE type = "transaction_pending"   -> "high"
    [] type = "transaction_cancelled" -> "medium"
    [] type = "reminder"              -> "low"

\* PRIORITY_COOLDOWNS, in seconds
PRIORITY_COOLDOWNS(priority) ==
  CASE priority = "low"    -> 3600
    [] priority = "medium" -> 900
    [] priority = "high"   -> 30

\* priorityOrder of the comparator of processQueue
priorityOrder(priority) ==
  CASE priority = "high"   -> 0
    [] priority = "medium" -> 1
    [] priority = "low"    -> 2

maxRetries == 3

Before_OldestFirst(a, b) == a.timestamp < b.timestamp

\* The comparator of the sort: a before b.
Before(a, b) ==
  \/ priorityOrder(a.priority) < priorityOrder(b.priority)
  \/ /\ priorityOrder(a.priority) = priorityOrder(b.priority)
     /\ a.timestamp < b.timestamp

RemoveAt(q, i) == [j \in 1..(Len(q) - 1) |-> IF j < i THEN q[j] ELSE q[j + 1]]

\* this.queue.sort(...): the sort is stable.
RECURSIVE SortQueue(_)
SortQueue(q) ==
  IF q = <<>> THEN <<>>
  ELSE LET i == CHOOSE k \in 1..Len(q) :
                  /\ \A j \in 1..Len(q) : ~Before(q[j], q[k])
                  /\ \A j \in 1..(k - 1) : Before(q[k], q[j])
       IN <<q[i]>> \o SortQueue(RemoveAt(q, i))

canSendNotification_Always(m, userId, notificationType, priority, t) == TRUE

\* canSendNotification at time t
canSendNotification(m, userId, notificationType, priority, t) ==
  LET cooldownPeriod == PRIORITY_COOLDOWNS(priority)
      lastNotified == m.userLastNotified[userId][notificationType]
      timeSinceLastNotification == t - lastNotified
  IN timeSinceLastNotification >= cooldownPeriod

ShouldRetry_Always(notification) == TRUE

\* notification.attempts < this.maxRetries
ShouldRetry(notification) == notification.attempts < maxRetries

\* No function of the app is in the middle of its synchronous run.
Quiet == manager.pc # "run"

\* queueNotification(userId, title, body, data, priority): the type gives the
\* priority unless one is given; processQueue is called when none is running.
QueueNotification_StartsAnyway(userId, type, priority) ==
  LET notificationPriority ==
        IF priority # "none" THEN priority ELSE NOTIFICATION_PRIORITIES(type)
      item == [id |-> ops + 1, userId |-> userId, type |-> type,
               priority |-> notificationPriority, timestamp |-> now,
               attempts |-> 0]
  IN /\ Quiet
     /\ ops < MaxNotifications
     /\ manager' = [manager EXCEPT !.queue = Append(@, item), !.pc = "run"]
     /\ ops' = ops + 1
     /\ UNCHANGED <<users, transactions, now, client, sweep, service, auth,
                    device_tokens>>

QueueNotification(userId, type, priority) ==
  LET notificationPriority ==
        IF priority # "none" THEN priority ELSE NOTIFICATION_PRIORITIES(type)
      item == [id |-> ops + 1, userId |-> userId, type |-> type,
               priority |-> notificationPriority, timestamp |-> now,
               attempts |-> 0]
  IN /\ Quiet
     /\ ops < MaxNotifications
     /\ manager' = [manager EXCEPT
                      !.queue = Append(@, item),
                      !.pc = IF manager.processing THEN @ ELSE "run"]
     /\ ops' = ops + 1
     /\ UNCHANGED <<users, transactions, now, client, sweep, service, auth,
                    device_tokens>>

\* A call of sendPushNotification up to its first await, the select of the
\* user's device tokens; awaited says that processQueue waits for it.
NewCall(id, userId, awaited) ==
  [id |-> id, userId |-> userId, pc |-> "select", awaited |-> awaited, due |-> 0]

\* processQueue from its start to its await of sendPushNotification, to its
\* call of itself or to its return.
ProcessQueue ==
  LET sorted       == SortQueue(manager.queue)
      notification == Head(sorted)
      canSend      == canSendNotification(manager, notification.userId,
                                          notification.type,
                                          notification.priority, now)
      requeued     == [notification EXCEPT
                         !.attempts = @ + 1,
                         !.timestamp = now + notification.attempts * 5]
  IN /\ manager.pc = "run"
     /\ IF manager.queue = <<>>
          THEN /\ manager' = [manager EXCEPT !.processing = FALSE, !.pc = "idle"]
               /\ service' = service
          ELSE IF canSend
            THEN /\ manager' = [manager EXCEPT
                                  !.processing = TRUE,
                                  !.queue = Tail(sorted),
                                  !.notification = notification,
                                  !.pc = "sending",
                                  !.sent = @ \cup {notification.id}]
                 /\ service' = [service EXCEPT !.calls = @ \cup
                      {NewCall(notification.id, notification.userId, TRUE)}]
            ELSE /\ manager' = [manager EXCEPT
                                  !.processing = TRUE,
                                  !.queue =
                                    IF ShouldRetry(notification)
                                      THEN Append(Tail(sorted), requeued)
                                      ELSE Tail(sorted),
                                  !.dropped =
                                    IF ShouldRetry(notification)
                                      THEN @ ELSE @ \cup {notification.id}]
                 /\ service' = service
     /\ UNCHANGED <<database, auth, device_tokens>>

\* processQueue after its await: the timestamp of the user and type, and the
\* setTimeout of one second.
AfterSend(m, t) ==
  [m EXCEPT !.userLastNotified[m.notification.userId][m.notification.type] = t,
            !.notification = NoNotification,
            !.pc = "pause", !.due = t + 1]

\* The setTimeout of processQueue fires.
PauseOver ==
  /\ manager.pc = "pause"
  /\ now >= manager.due
  /\ manager' = [manager EXCEPT !.pc = "run", !.due = 0]
  /\ UNCHANGED <<database, service, auth, device_tokens>>

\* The device tokens of a user, as the select of sendPushNotification finds
\* them.
TokensOf(userId) == IF userId = 1 THEN {1} ELSE {}

\* A call of one of the notify functions of NotificationService, which call
\* sendPushNotification without waiting for it.
SendPushNotification(userId) ==
  /\ Quiet
  /\ ops < MaxNotifications
  /\ service' = [service EXCEPT !.calls = @ \cup {NewCall(ops + 1, userId, FALSE)}]
  /\ ops' = ops + 1
  /\ UNCHANGED <<users, transactions, now, client, sweep, manager, auth,
                 device_tokens>>

CallIds == 0..MaxNotifications

\* The call of sendPushNotification made for notification or push id.
CallOf(id) == CHOOSE c \in service.calls : c.id = id

InCall(id, pc) == \E c \in service.calls : c.id = id /\ c.pc = pc

\* The call returns; processQueue goes on when it was waiting for the call.
ReturnTo(c) == IF c.awaited THEN AfterSend(manager, now) ELSE manager

\* now - lastNotificationTime < 30000
TooSoon(lastNotificationTime, t) == t - lastNotificationTime < 30

\* sendPushNotification after the select: no tokens, too soon after the last
\* notification of the user (a setTimeout of 30 seconds calls it again), or
\* the timestamp is set and the first push goes out.
AfterSelect(id) ==
  /\ Quiet
  /\ InCall(id, "select")
  /\ LET c == CallOf(id) IN
       /\ IF TokensOf(c.userId) = {}
            THEN /\ service' = [service EXCEPT !.calls = @ \ {c}]
                 /\ manager' = ReturnTo(c)
            ELSE IF TooSoon(service.notificationTimestamps[c.userId], now)
              THEN /\ service' = [service EXCEPT
                        !.calls = (@ \ {c}) \cup
                          {[c EXCEPT !.pc = "timer", !.awaited = FALSE, !.due = now + 30]},
                        !.skipped = @ \cup {c.id}]
                   /\ manager' = ReturnTo(c)
              ELSE /\ service' = [service EXCEPT
                        !.notificationTimestamps[c.userId] = now,
                        !.calls = (@ \ {c}) \cup {[c EXCEPT !.pc = "fetch"]},
                        !.pushed = @ \cup {c.id},
                        !.dispatched[c.userId] = now]
                   /\ manager' = manager
  /\ UNCHANGED <<database, auth, device_tokens>>

\* The pushes to the push service are answered: the call returns.
AfterFetch(id) ==
  /\ Quiet
  /\ InCall(id, "fetch")
  /\ LET c == CallOf(id) IN
       /\ service' = [service EXCEPT !.calls = @ \ {c}]
       /\ manager' = ReturnTo(c)
  /\ UNCHANGED <<database, auth, device_tokens>>

RetryPush_Forgotten(id) ==
  /\ Quiet
  /\ InCall(id, "timer")
  /\ LET c == CallOf(id) IN
       /\ now >= c.due
       /\ service' = [service EXCEPT !.calls = @ \ {c}]
  /\ UNCHANGED <<database, manager, auth, device_tokens>>

\* The setTimeout of a skipped push fires: sendPushNotification again.
RetryPush(id) ==
  /\ Quiet
  /\ InCall(id, "timer")
  /\ LET c == CallOf(id) IN
       /\ now >= c.due
       /\ service' = [service EXCEPT !.calls = (@ \ {c}) \cup
                        {[c EXCEPT !.pc = "select", !.due = 0]}]
  /\ UNCHANGED <<database, manager, auth, device_tokens>>

\* Time passes.
Clock(t) ==
  /\ Quiet
  /\ t > now
  /\ now' = t
  /\ UNCHANGED <<users, transactions, client, sweep, ops, app>>

\* The times of the setTimeouts that have not fired.
Timers ==
  (IF manager.pc = "pause" THEN {manager.due} ELSE {})
    \cup {c.due : c \in {x \in service.calls : x.pc = "timer"}}

\* Time passes until the next setTimeout is due.
Wait ==
  /\ Quiet
  /\ Timers # {}
  /\ \A t \in Timers : t > now
  /\ now' = CHOOSE t \in Timers : \A x \in Timers : t <= x
  /\ UNCHANGED <<users, transactions, client, sweep, ops, app>>

InitNotify ==
  /\ users = [u \in Users |-> NewUser]
  /\ transactions = <<>>
  /\ now = Epoch
  /\ client = [p \in Clients |-> IdleClient]
  /\ sweep = IdleSweep
  /\ ops = 0
  /\ AppAtStart

\* The user of the app sends notifications to the other party, user 1.
Recipients == {1}

NextNotify ==
  \/ \E userId \in Recipients, type \in NotificationTypes :
       QueueNotification(userId, type, "none")
  \/ ProcessQueue
  \/ PauseOver
  \/ \E userId \in Users : SendPushNotification(userId)
  \/ \E id \in CallIds : AfterSelect(id)
  \/ \E id \in CallIds : AfterFetch(id)
  \/ \E id \in CallIds : RetryPush(id)
  \/ \E e \in Elapsed : Clock(Epoch + e)

SpecNotify == InitNotify /\ [][NextNotify]_vars

\* ---- the same app with its event loop running ------------------------------
\* The first notification, a transaction_pending one to user 1, has been
\* queued and is being sent.  Notifications of that type are queued for both
\* users; nothing else requests a push, so that no push is skipped.  Every
\* function that can run does run, every request is answered and every
\* setTimeout comes due.
InitSending ==
  LET first == [id |-> 0, userId |-> 1, type |-> "transaction_pending",
                priority |-> NOTIFICATION_PRIORITIES("transaction_pending"),
                timestamp |-> Epoch, attempts |-> 0]
  IN /\ users = [u \in Users |-> NewUser]
     /\ transactions = <<>>
     /\ now = Epoch
     /\ client = [p \in Clients |-> IdleClient]
     /\ sweep = IdleSweep
     /\ ops = 0
     /\ manager = [InitManager EXCEPT !.processing = TRUE, !.pc = "sending",
                                      !.notification = first, !.sent = {0}]
     /\ service = [InitService EXCEPT !.calls = {NewCall(0, 1, TRUE)}]
     /\ auth = InitAuth
     /\ device_tokens = InitDeviceTokens

\* The instants at which the cooldown of a high priority notification sent
\* at Epoch, and of one sent after it, is over.
Cooldowns == {30, 60}

NextLoop ==
  \/ \E userId \in Users : QueueNotification(userId, "transaction_pending", "none")
  \/ ProcessQueue
  \/ PauseOver
  \/ \E id \in CallIds : AfterSelect(id)
  \/ \E id \in CallIds : AfterFetch(id)
  \/ \E e \in Cooldowns : Clock(Epoch + e)
  \/ Wait

\* What the event loop runs by itself.  The chain of processQueue is at one
\* place at a time, so at most one of these can happen.
EventLoop ==
  \/ ProcessQueue
  \/ PauseOver
  \/ \E id \in CallIds : AfterSelect(id)
  \/ \E id \in CallIds : AfterFetch(id)
  \/ Wait

SpecLoop == InitSending /\ [][NextLoop]_vars /\ WF_vars(EventLoop)

(***************************************************************************)
(* NotificationService called directly, with its timers running.           *)
(***************************************************************************)

\* The instants at which the notify functions are called: together, and
\* within and after the 30 seconds that follow.
Instants == {1, 30}

NextPush ==
  \/ \E userId \in Users : SendPushNotification(userId)
  \/ \E id \in CallIds : AfterSelect(id)
  \/ \E id \in CallIds : AfterFetch(id)
  \/ \E id \in CallIds : RetryPush(id)
  \/ \E e \in Instants : Clock(Epoch + e)
  \/ Wait

\* What the event loop runs by itself: the answers of the database and of
\* the push service, and the setTimeouts when they are due.
PushLoop ==
  \/ \E id \in CallIds : AfterSelect(id)
  \/ \E id \in CallIds : AfterFetch(id)
  \/ \E id \in CallIds : RetryPush(id)
  \/ Wait

SpecPush == InitNotify /\ [][NextPush]_vars /\ WF_vars(PushLoop)

(***************************************************************************)
(* The auth store of one app, hooks/useAuth.ts.  A function runs from one  *)
(* await to the next in one step; one call of each function is under way   *)
(* at a time, and MaxCalls calls and events happen in all.                 *)
(***************************************************************************)

MaxCalls == 4

\* The cooldown that a rate-limit error sets, in seconds.
RateLimitCooldown == 60

\* The versions of the account's row.
Versions == {1, 2}

\* set(...) of the store and the next place of function f.
AuthStep(f, pc, store) ==
  /\ auth' = [store EXCEPT !.pc[f] = pc]
  /\ ops' = ops
  /\ UNCHANGED <<users, transactions, now, client, sweep, manager, service,
                 device_tokens>>

\* The same for the step that starts a call or delivers an event.
AuthCall(f, pc, store) ==
  /\ ops < MaxCalls
  /\ auth' = [store EXCEPT !.pc[f] = pc]
  /\ ops' = ops + 1
  /\ UNCHANGED <<users, transactions, now, client, sweep, manager, service,
                 device_tokens>>

\* set({ user: null, isAuthenticated: false })
SignedOut(a) == [a EXCEPT !.user = 0, !.isAuthenticated = FALSE]

\* set({ user, isAuthenticated: true })
SignedIn(a, user) == [a EXCEPT !.user = user, !.isAuthenticated = TRUE]

\* initialize: set({ loading: true }) and the await of getSession.
InitializeCall ==
  /\ auth.pc["initialize"] = "idle"
  /\ AuthCall("initialize", "getSession", [auth EXCEPT !.loading = TRUE])

\* initialize after getSession: without a session it signs out; with one it
\* registers the handler of onAuthStateChange and looks the user up.
InitializeSession ==
  /\ auth.pc["initialize"] = "getSession"
  /\ IF auth.session
       THEN AuthStep("initialize", "findUserByEmail",
                     [auth EXCEPT !.listening = TRUE])
       ELSE AuthStep("initialize", "signOut", auth)

\* initialize after findUserByEmail: the user is set, or the app signs out.
InitializeFound(found) ==
  /\ auth.pc["initialize"] = "findUserByEmail"
  /\ IF found
       THEN AuthStep("initialize", "idle",
                     [SignedIn(auth, auth.row) EXCEPT !.loading = FALSE])
       ELSE AuthStep("initialize", "signOut", auth)

\* initialize after supabase.auth.signOut(): the store is cleared.
InitializeSignedOut ==
  /\ auth.pc["initialize"] = "signOut"
  /\ AuthStep("initialize", "idle",
              [SignedOut(auth) EXCEPT !.session = FALSE, !.loading = FALSE])

\* if (get().cooldown > 0) { ...; return; }
InCooldown_Never(a) == FALSE

InCooldown(a) == a.cooldown > 0

\* setCooldown(seconds): the cooldown is set and one more setInterval runs.
setCooldown(a, seconds) ==
  [a EXCEPT !.cooldown = seconds, !.intervals = @ + 1]

\* signIn or login up to the await of the auth service: during a cooldown
\* it returns at once.
AuthRequest(f) ==
  /\ auth.pc[f] = "idle"
  /\ IF InCooldown(auth)
       THEN AuthCall(f, "idle", auth)
       ELSE AuthCall(f, "request", [auth EXCEPT !.loading = TRUE])

\* The answer of signUp or signInWithPassword: a rate-limit error, another
\* error, or a session.
AuthAnswer(f, answer) ==
  /\ auth.pc[f] = "request"
  /\ CASE answer = "rate limit" ->
            AuthStep(f, "idle",
                     [setCooldown(auth, RateLimitCooldown) EXCEPT !.loading = FALSE])
       [] answer = "error" ->
            AuthStep(f, "idle", [auth EXCEPT !.loading = FALSE])
       [] OTHER ->
            AuthStep(f, "findUserByEmail", [auth EXCEPT !.session = TRUE])

\* signIn or login after findUserByEmail.
AuthFound(f, found) ==
  /\ auth.pc[f] = "findUserByEmail"
  /\ IF found
       THEN AuthStep(f, "idle",
                     [SignedIn(auth, auth.row) EXCEPT !.loading = FALSE])
       ELSE AuthStep(f, "idle", [auth EXCEPT !.loading = FALSE])

\* signOut: set({ loading: true }) and the await of supabase.auth.signOut().
SignOutCall ==
  /\ auth.pc["signOut"] = "idle"
  /\ AuthCall("signOut", "signOut", [auth EXCEPT !.loading = TRUE])

\* signOut after supabase.auth.signOut(): the store is cleared and the
\* function waits 800 ms, or after an error it signs out once more.
SignOutAnswer(error) ==
  /\ auth.pc["signOut"] = "signOut"
  /\ IF error
       THEN AuthStep("signOut", "again", auth)
       ELSE AuthStep("signOut", "setTimeout",
                     [SignedOut(auth) EXCEPT !.session = FALSE])

\* signOut after its second supabase.auth.signOut().
SignOutAgain(error) ==
  /\ auth.pc["signOut"] = "again"
  /\ IF error
       THEN AuthStep("signOut", "idle", [auth EXCEPT !.loading = FALSE])
       ELSE AuthStep("signOut", "idle",
                     [SignedOut(auth) EXCEPT !.session = FALSE, !.loading = FALSE])

\* signOut after the 800 ms: finally.
SignOutDone ==
  /\ auth.pc["signOut"] = "setTimeout"
  /\ AuthStep("signOut", "idle", [auth EXCEPT !.loading = FALSE])

\* refreshUserData up to the await of getSession.
RefreshCall ==
  /\ auth.pc["refreshUserData"] = "idle"
  /\ AuthCall("refreshUserData", "getSession", auth)

\* refreshUserData after getSession.
RefreshSession ==
  /\ auth.pc["refreshUserData"] = "getSession"
  /\ AuthStep("refreshUserData",
              IF auth.session THEN "findUserByEmail" ELSE "idle", auth)

\* set({ user })
Refreshed(a, user) == [a EXCEPT !.user = user]

\* refreshUserData after findUserByEmail.
RefreshFound(found) ==
  /\ auth.pc["refreshUserData"] = "findUserByEmail"
  /\ AuthStep("refreshUserData", "idle",
              IF found THEN Refreshed(auth, auth.row) ELSE auth)

AuthEvents == {"SIGNED_OUT", "SIGNED_IN", "TOKEN_REFRESHED"}

\* The handler of onAuthStateChange up to its first await.  SIGNED_OUT comes
\* without a session, SIGNED_IN and TOKEN_REFRESHED come with one.
AuthStateChange(event) ==
  /\ auth.listening
  /\ auth.pc["onAuthStateChange"] = "idle"
  /\ IF event = "SIGNED_OUT"
       THEN /\ ~auth.session
            /\ AuthCall("onAuthStateChange", "idle", SignedOut(auth))
       ELSE /\ auth.session
            /\ AuthCall("onAuthStateChange", "findUserByEmail", auth)

\* The handler after findUserByEmail.
AuthStateFound(found) ==
  /\ auth.pc["onAuthStateChange"] = "findUserByEmail"
  /\ AuthStep("onAuthStateChange", "idle",
              IF found THEN SignedIn(auth, auth.row) ELSE auth)

\* user: state.user ? { ...state.user, ...data } : null
updateUser(a, data) == [a EXCEPT !.user = IF a.user # 0 THEN data ELSE 0]

UpdateUserCall(data) ==
  /\ updateUser(auth, data) # auth
  /\ AuthCall("login", auth.pc["login"], updateUser(auth, data))

\* The row of the account changes and the real-time subscription delivers
\* the new row: updateUser when a user is held.
RealtimeUpdate(data) ==
  /\ data # auth.row
  /\ AuthCall("login", auth.pc["login"],
              IF auth.user # 0
                THEN updateUser([auth EXCEPT !.row = data], data)
                ELSE [auth EXCEPT !.row = data])

\* The callback of a setInterval of setCooldown: at 0 it clears its
\* interval, above 0 it takes one second off.
Countdown(a) ==
  IF a.cooldown <= 0
    THEN [a EXCEPT !.intervals = @ - 1]
    ELSE [a EXCEPT !.cooldown = @ - 1]

Interval ==
  /\ auth.intervals > 0
  /\ auth' = Countdown(auth)
  /\ ops' = ops
  /\ UNCHANGED <<users, transactions, now, client, sweep, manager, service,
                 device_tokens>>

\* The app starts with the session the auth client kept, or with none.
InitAuthStore ==
  /\ users = [u \in Users |-> NewUser]
  /\ transactions = <<>>
  /\ now = Epoch
  /\ client = [p \in Clients |-> IdleClient]
  /\ sweep = IdleSweep
  /\ ops = 0
  /\ manager = InitManager
  /\ service = InitService
  /\ auth \in {[InitAuth EXCEPT !.session = s] : s \in BOOLEAN}
  /\ device_tokens = InitDeviceTokens

Answers == {"rate limit", "error", "session"}

\* The two functions that send the user's credentials to the auth service.
Credentials == {"signIn", "login"}

NextAuth ==
  \/ InitializeCall
  \/ InitializeSession
  \/ \E found \in BOOLEAN : InitializeFound(found)
  \/ InitializeSignedOut
  \/ \E f \in Credentials : AuthRequest(f)
  \/ \E f \in Credentials, answer \in Answers : AuthAnswer(f, answer)
  \/ \E f \in Credentials, found \in BOOLEAN : AuthFound(f, found)
  \/ SignOutCall
  \/ \E error \in BOOLEAN : SignOutAnswer(error)
  \/ \E error \in BOOLEAN : SignOutAgain(error)
  \/ SignOutDone
  \/ RefreshCall
  \/ RefreshSession
  \/ \E found \in BOOLEAN : RefreshFound(found)
  \/ \E event \in AuthEvents : AuthStateChange(event)
  \/ \E found \in BOOLEAN : AuthStateFound(found)
  \/ \E data \in Versions : UpdateUserCall(data)
  \/ \E data \in Versions : RealtimeUpdate(data)
  \/ Interval

SpecAuth == InitAuthStore /\ [][NextAuth]_vars

\* signIn, login and the setIntervals of setCooldown alone, the setIntervals
\* firing as long as they run.
NextCooldown ==
  \/ \E f \in Credentials : AuthRequest(f)
  \/ \E f \in Credentials, answer \in Answers : AuthAnswer(f, answer)
  \/ \E f \in Credentials, found \in BOOLEAN : AuthFound(f, found)
  \/ Interval

SpecCooldown == InitAuthStore /\ [][NextCooldown]_vars /\ WF_vars(Interval)

(***************************************************************************)
(* public.device_tokens and save_device_token.  A call is one transaction  *)
(* at READ COMMITTED: its SELECT and its INSERT or UPDATE are two          *)
(* statements, and other calls commit between them.                        *)
(***************************************************************************)

MaxSaves == 3

\* Expo push tokens and device names.
Tokens == {1, 2}

DeviceNames == {1, 2}

\* What a call that the database aborted hands to the caller.
SaveError == 0 - 2

\* The ids of the rows of user_id with token: WHERE user_id = p_user_id AND
\* token = p_token.
TokenRows(rows, user_id, token) ==
  {i \in 1..Len(rows) : rows[i].user_id = user_id /\ rows[i].token = token}

\* supabase.rpc('save_device_token', ...) of saveTokenToDatabase.
SaveDeviceTokenCall(p, userId, token, deviceName) ==
  /\ device_tokens.calls[p].pc = "idle"
  /\ ops < MaxSaves
  /\ device_tokens' = [device_tokens EXCEPT !.calls[p] =
       [IdleSave EXCEPT !.pc = "select", !.p_user_id = userId,
                        !.p_token = token, !.p_device_name = deviceName]]
  /\ ops' = ops + 1
  /\ UNCHANGED <<users, transactions, now, client, sweep, manager,
                  service, auth>>

\* SELECT id INTO token_id
SaveSelect(p) ==
  LET c     == device_tokens.calls[p]
      found == TokenRows(device_tokens.rows, c.p_user_id, c.p_token)
  IN /\ c.pc = "select"
     /\ device_tokens' = [device_tokens EXCEPT
          !.calls[p].pc = "write",
          !.calls[p].token_id =
             IF found = {} THEN NULL ELSE CHOOSE i \in found : TRUE]
     /\ ops' = ops
     /\ UNCHANGED <<users, transactions, now, client, sweep, manager,
                     service, auth>>

\* IF token_id IS NULL THEN INSERT ... ELSE UPDATE ... END IF; RETURN
\* token_id.  UNIQUE(user_id, token) refuses the INSERT of a pair that a row
\* has: that aborts the call and the caller gets the error.
SaveWrite(p) ==
  LET c    == device_tokens.calls[p]
      rows == device_tokens.rows
      row  == [user_id |-> c.p_user_id, token |-> c.p_token,
               device_name |-> c.p_device_name, last_used_at |-> now]
  IN /\ c.pc = "write"
     /\ IF c.token_id = NULL
          THEN IF TokenRows(rows, c.p_user_id, c.p_token) # {}
                 THEN device_tokens' = [device_tokens EXCEPT
                        !.calls[p] = [IdleSave EXCEPT !.result = SaveError]]
                 ELSE device_tokens' = [device_tokens EXCEPT
                        !.rows = Append(@, row),
                        !.calls[p] = [IdleSave EXCEPT !.result = Len(rows) + 1]]
          ELSE device_tokens' = [device_tokens EXCEPT
                 !.rows[c.token_id].device_name = c.p_device_name,
                 !.rows[c.token_id].last_used_at = now,
                 !.calls[p] = [IdleSave EXCEPT !.result = c.token_id]]
     /\ ops' = ops
     /\ UNCHANGED <<users, transactions, now, client, sweep, manager,
                     service, auth>>

NextTokens ==
  \/ \E p \in Clients, userId \in Users, token \in Tokens, deviceName \in DeviceNames :
       SaveDeviceTokenCall(p, userId, token, deviceName)
  \/ \E p \in Clients : SaveSelect(p)
  \/ \E p \in Clients : SaveWrite(p)
  \/ Clock(Epoch + 1)

SpecTokens == InitNotify /\ [][NextTokens]_vars

\* ---- properties ---------------------------------------------------------------
RECURSIVE SumOver(_, _)
SumOver(f, S) ==
  IF S = {} THEN 0
  ELSE LET x == CHOOSE y \in S : TRUE IN f[x] + SumOver(f, S \ {x})

TotalMoney ==
  SumOver([u \in Users |-> users[u].balance + users[u].escrow_balance], Users)

Outstanding(u) ==
  LET mine == {id \in DOMAIN transactions :
                 /\ transactions[id].sender_id = u
                 /\ transactions[id].status \in {"pending", "accepted"}}
  IN SumOver([id \in mine |-> transactions[id].amount], mine)

\* C1: the sum of balance + escrow_balance over all users always equals its
\* initial value: no operation creates or destroys money.
C1_Conservation == TotalMoney = NumUsers * InitBalance

\* C1 witness: money has been released to a receiver and returned to a sender.
C1_Witness ==
  /\ \E id \in DOMAIN transactions : transactions[id].status = "completed"
  /\ \E id \in DOMAIN transactions : transactions[id].status = "cancelled"
  /\ \E u \in Users : users[u].balance > InitBalance

\* C2: each user's escrow_balance equals the sum of the amounts of the
\* pending or accepted transactions that user sent.
C2_EscrowMatchesOutstanding ==
  \A u \in Users : users[u].escrow_balance = Outstanding(u)

LegalChange(old, new) ==
  \/ old = new
  \/ old = "pending"  /\ new \in {"accepted", "cancelled"}
  \/ old = "accepted" /\ new \in {"completed", "cancelled"}

\* C3: the status of a transaction only ever changes pending->accepted,
\* pending->cancelled, accepted->completed or accepted->cancelled.
C3_StateMachineClosure ==
  [][\A id \in DOMAIN transactions :
       LegalChange(transactions[id].status, transactions'[id].status)]_vars

\* C5: every balance and escrow_balance is >= 0 and every stored amount > 0.
C5_NonNegative ==
  /\ \A u \in Users : users[u].balance >= 0 /\ users[u].escrow_balance >= 0
  /\ \A id \in DOMAIN transactions : transactions[id].amount > 0

\* C4: when every client creates a transaction of amount A for one sender
\* whose balance is exactly A, and all calls have returned, exactly one has
\* succeeded, the others have failed with 'Insufficient balance', and the
\* sender has balance 0 and escrow_balance A.
C4_NoDoubleSpend ==
  (\A p \in Clients : client[p].pc = "done") =>
    /\ Cardinality({p \in Clients : client[p].result = "ok"}) = 1
    /\ \A p \in Clients : client[p].result \in {"ok", "Insufficient balance"}
    /\ users[transactions[1].sender_id].balance = 0
    /\ users[transactions[1].sender_id].escrow_balance = transactions[1].amount

\* The step in which client p's update_transaction_status applies its writes.
WriteStep(p) == client[p].pc = "update_write" /\ client'[p].pc = "done"

DbUnchanged == users' = users /\ transactions' = transactions

\* C6: of a cancel and an accept racing on a pending transaction, the one
\* that commits second fails and changes nothing.
C6_AcceptCancelRace ==
  [][\A p \in Clients :
       LET id == client[p].p_transaction_id
           new == client[p].p_new_status
       IN (/\ WriteStep(p)
           /\ client[p].record_status = "pending"
           /\ \/ new = "accepted"  /\ transactions[id].status = "cancelled"
              \/ new = "cancelled" /\ transactions[id].status = "accepted")
          => (client'[p].result # "ok" /\ DbUnchanged)]_vars

\* C7: of a complete and a cancel racing on an accepted transaction, the one
\* that commits second finds the committed status: it does not change the
\* status again and takes nothing more out of the sender's escrow.
C7_SecondCommitterLoses ==
  [][\A p \in Clients :
       LET id == client[p].p_transaction_id
           s  == transactions[id].sender_id
       IN (/\ WriteStep(p)
           /\ client[p].record_status = "accepted"
           /\ client[p].p_new_status \in {"completed", "cancelled"}
           /\ transactions[id].status \in {"completed", "cancelled"})
          => /\ transactions'[id].status = transactions[id].status
             /\ users'[s].escrow_balance = users[s].escrow_balance]_vars

\* C8: the sweep never returns the amount of a transaction that a user's
\* cancel has already returned: what it cancels at its commit is not
\* cancelled already.
C8_NoDoubleReturn ==
  [][(sweep.pc = "loop" /\ sweep'.pc = "idle") =>
       \A i \in 1..Len(sweep.done) :
         transactions[sweep.done[i]].status # "cancelled"]_vars

\* C9: update_transaction_status called with the status the transaction
\* already has returns without error at once, and the step leaves every
\* transaction row, balance, escrow balance and unread list as it was; the
\* sweep's call for a transaction already cancelled likewise writes nothing.
C9_SameStatusNoOp ==
  [][/\ \A p \in Clients, id \in DOMAIN transactions, new \in StatusArgs :
          (UpdateStatusCall(p, id, new) /\ transactions[id].status = new)
            => (client'[p] = ReturnedNoChange /\ DbUnchanged)
     /\ \A id \in DOMAIN transactions :
          (SweepFetch(id) /\ transactions[id].status = "cancelled")
            => (sweep'.pc = "loop" /\ sweep'.done = sweep.done /\ DbUnchanged)]_vars

\* C9 witness: a call for the status a closed transaction already has returned.
C9_Witness ==
  /\ \E p \in Clients : client[p].pc = "no_change" /\ client[p].result = "ok"
  /\ \E id \in DOMAIN transactions :
       transactions[id].status \in {"completed", "cancelled"}

\* C10: a successful create_transaction_with_escrow takes amount from the
\* sender's balance, adds it to the sender's escrow_balance, inserts exactly
\* one transaction, with status pending, and changes no other balance,
\* escrow balance or transaction.
C10_CreateEffect ==
  [][\A p \in Clients :
       LET s == client[p].p_sender_id
           a == client[p].p_amount
           n == Len(transactions)
       IN (client[p].pc = "create_write" /\ client'[p].result = "ok")
          => /\ users'[s].balance = users[s].balance - a
             /\ users'[s].escrow_balance = users[s].escrow_balance + a
             /\ \A u \in Users \ {s} :
                  /\ users'[u].balance = users[u].balance
                  /\ users'[u].escrow_balance = users[u].escrow_balance
             /\ Len(transactions') = n + 1
             /\ SubSeq(transactions', 1, n) = transactions
             /\ transactions'[n + 1].status = "pending"
             /\ transactions'[n + 1].sender_id = s
             /\ transactions'[n + 1].receiver_id = client[p].p_receiver_id
             /\ transactions'[n + 1].amount = a]_vars

\* C10 witness: a created transaction is pending and its amount is held.
C10_Witness ==
  \E id \in DOMAIN transactions :
    /\ transactions[id].status = "pending"
    /\ users[transactions[id].sender_id].escrow_balance >= transactions[id].amount
    /\ \E p \in Clients : client[p].pc = "done" /\ client[p].result = "ok"

\* C11: create_transaction_with_escrow called with an amount above the
\* sender's balance fails with 'Insufficient balance', and a create call that
\* fails, at its balance check or at a constraint of the INSERT, leaves every
\* user row and every transaction row as it was.
C11_CreateFailureNoEffect ==
  [][\A p \in Clients :
       /\ \A s \in Users, r \in Users, a \in AmountArgs,
             cs \in ConditionArgs, tl \in TimeLimits :
            (CreateCall(p, s, r, a, cs, tl) /\ users[s].balance < a)
              => (client'[p] = Returned("Insufficient balance") /\ DbUnchanged)
       /\ (/\ client[p].pc = "create_write"
           /\ client'[p].pc = "done"
           /\ client'[p].result # "ok") => DbUnchanged]_vars

\* C11 witness: one create has failed its balance check after the sender's
\* balance went into escrow, another has failed a constraint of the INSERT.
C11_Witness ==
  /\ \E p \in Clients : client[p].result = "Insufficient balance"
  /\ \E p \in Clients : client[p].result = "check_violation"
  /\ \E u \in Users : users[u].balance = 0 /\ users[u].escrow_balance > 0

\* C12: a complete that succeeds on an accepted transaction takes amount from
\* the sender's escrow_balance, adds it to the receiver's balance and sets the
\* status to completed; the sender's balance and the receiver's
\* escrow_balance stay as they were.
C12_CompleteEffect ==
  [][\A p \in Clients :
       LET id == client[p].p_transaction_id
           s  == transactions[id].sender_id
           r  == transactions[id].receiver_id
           a  == transactions[id].amount
       IN (/\ WriteStep(p)
           /\ client[p].p_new_status = "completed"
           /\ transactions[id].status = "accepted"
           /\ client'[p].result = "ok")
          => /\ users'[s].escrow_balance = users[s].escrow_balance - a
             /\ users'[r].balance = users[r].balance + a
             /\ transactions'[id].status = "completed"
             /\ users'[s].balance = users[s].balance
             /\ users'[r].escrow_balance = users[r].escrow_balance]_vars

\* C12 witness: a complete call has returned without error and its
\* transaction is completed, the receiver holding the amount.
C12_Witness ==
  \E id \in DOMAIN transactions :
    /\ transactions[id].status = "completed"
    /\ transactions[id].completed_at # NULL
    /\ users[transactions[id].receiver_id].balance >= InitBalance + transactions[id].amount
    /\ \E p \in Clients : client[p].pc = "done" /\ client[p].result = "ok"

\* C13: marking the last incomplete condition and completing the transaction
\* are one atomic unit: in no state is the whole checklist of a transaction
\* completed and the transaction not completed.
C13_AtomicCompletion ==
  \A id \in DOMAIN transactions :
    AllConditionsMet(transactions[id].conditions)
      => transactions[id].status = "completed"

\* C14: in every state a completed transaction has all its conditions
\* completed.
C14_CompletedImpliesConditions ==
  \A id \in DOMAIN transactions :
    transactions[id].status = "completed"
      => AllConditionsMet(transactions[id].conditions)

\* The amount the sweep's commit returns to user u.
SweptAmount(u) ==
  LET mine == {id \in SweepOpenTx : transactions[id].sender_id = u}
  IN SumOver([id \in mine |-> transactions[id].amount], mine)

Deadline(row) ==
  IF row.status = "accepted"
    THEN row.accepted_at + row.time_limit
    ELSE row.created_at + row.time_limit

DeadlinePassed(row, t) == Deadline(row) < t

\* C16: an accept of a transaction that is not pending, or whose deadline has
\* passed, fails and changes no row.
C16_AcceptGuard ==
  [][\A p \in Clients :
       LET id == client[p].p_transaction_id
       IN (/\ WriteStep(p)
           /\ client[p].p_new_status = "accepted"
           /\ \/ transactions[id].status # "pending"
              \/ DeadlinePassed(transactions[id], now))
          => (client'[p].result # "ok" /\ DbUnchanged)]_vars

\* C17: an accept changes no balance and no escrow_balance, no transaction
\* row but its own, and of its own row only status and accepted_at; of the
\* unread lists only the sender's changes.
C17_AcceptFrame ==
  [][\A p \in Clients :
       LET id == client[p].p_transaction_id
           s  == transactions[id].sender_id
       IN (WriteStep(p) /\ client[p].p_new_status = "accepted")
          => /\ client'[p].result = "ok"
             /\ \A u \in Users :
                  /\ users'[u].balance = users[u].balance
                  /\ users'[u].escrow_balance = users[u].escrow_balance
                  /\ u # s => users'[u].unread_transactions =
                                users[u].unread_transactions
             /\ transactions' = [transactions EXCEPT
                                   ![id].status = "accepted",
                                   ![id].accepted_at = now]]_vars

\* C17 witness: a transaction has been accepted, its amount still in escrow.
C17_Witness ==
  \E id \in DOMAIN transactions :
    /\ transactions[id].status = "accepted"
    /\ transactions[id].accepted_at # NULL
    /\ users[transactions[id].sender_id].escrow_balance >= transactions[id].amount
    /\ id \in SeqToSet(users[transactions[id].sender_id].unread_transactions)

\* C18: when the sweep commits, every pending or accepted transaction whose
\* deadline has passed is cancelled and no transaction whose deadline has not
\* passed is cancelled by it.
C18_SweepCancelsExpired ==
  [][(sweep.pc = "loop" /\ sweep'.pc = "idle") =>
       \A id \in DOMAIN transactions :
         /\ (/\ transactions[id].status \in {"pending", "accepted"}
             /\ DeadlinePassed(transactions[id], now))
            => transactions'[id].status = "cancelled"
         /\ (/\ transactions[id].status \in {"pending", "accepted"}
             /\ ~DeadlinePassed(transactions[id], now))
            => transactions'[id].status = transactions[id].status]_vars

\* C19: the sweep cancels an accepted transaction only when time_limit hours
\* have passed since accepted_at.
C19_AcceptedDeadlineFromAcceptedAt ==
  [][(sweep.pc = "loop" /\ sweep'.pc = "idle") =>
       \A id \in SweepOpenTx :
         transactions[id].status = "accepted"
           => transactions[id].accepted_at + transactions[id].time_limit < now]_vars

\* C20: when the cancellation of one candidate fails, the sweep goes on:
\* the transactions it has cancelled before are cancelled when it ends.
C20_SweepContinuesAfterFailure ==
  [][(sweep.pc = "write" /\ sweep'.pc = "idle") =>
       \A id \in SweepOpenTx : transactions'[id].status = "cancelled"]_vars

\* C21: accepted_at, completed_at and cancelled_at are each written only by
\* the step that takes the transaction into that status, and a timestamp
\* that is set never changes afterwards.
C21_TimestampsSetOnce ==
  [][\A id \in DOMAIN transactions :
       LET old == transactions[id]
           new == transactions'[id]
       IN /\ old.accepted_at # NULL => new.accepted_at = old.accepted_at
          /\ old.completed_at # NULL => new.completed_at = old.completed_at
          /\ old.cancelled_at # NULL => new.cancelled_at = old.cancelled_at
          /\ new.accepted_at # old.accepted_at
               => (old.status # "accepted" /\ new.status = "accepted")
          /\ new.completed_at # old.completed_at
               => (old.status # "completed" /\ new.status = "completed")
          /\ new.cancelled_at # old.cancelled_at
               => (old.status # "cancelled" /\ new.status = "cancelled")]_vars

C23_CreateArgumentsChecked ==
  [][/\ \A p \in Clients :
          (/\ client[p].pc = "create_write"
           /\ client'[p].pc # "create_write"
           /\ \/ client[p].p_amount <= 0
              \/ client[p].p_sender_id = client[p].p_receiver_id
              \/ client[p].p_conditions = <<>>)
          => (client'[p].result # "ok" /\ DbUnchanged)
     /\ \A id \in DOMAIN transactions' :
          /\ transactions'[id].sender_id # transactions'[id].receiver_id
          /\ transactions'[id].conditions # <<>>]_vars

\* C24: update_transaction_status for an unknown id, for a status outside
\* accepted, completed and cancelled, or for 'completed' on a transaction that
\* is neither accepted nor completed already, ends with an error and leaves
\* every user row and every transaction row as it was.
C24_StatusErrorsNoEffect ==
  [][\A p \in Clients :
       /\ \A id \in TxIds, new \in StatusArgs :
            (UpdateStatusCall(p, id, new) /\ id \notin DOMAIN transactions)
              => (/\ client'[p].pc = "done"
                  /\ client'[p].result # "ok"
                  /\ DbUnchanged)
       /\ (/\ WriteStep(p)
           /\ \/ client[p].p_new_status \notin {"accepted", "completed", "cancelled"}
              \/ /\ client[p].p_new_status = "completed"
                 /\ transactions[client[p].p_transaction_id].status
                      \notin {"accepted", "completed"})
          => (client'[p].result # "ok" /\ DbUnchanged)]_vars

\* How often id is in a user's unread list.
UnreadCount(row, id) ==
  Cardinality({i \in 1..Len(row.unread_transactions) :
                 row.unread_transactions[i] = id})

\* C25: each transition puts the transaction's id on the unread list of the
\* party to notify: the receiver at creation, the sender at acceptance, the
\* receiver at completion, both parties at cancellation.
C25_UnreadAfterTransition ==
  [][/\ \A p \in Clients :
          LET r == client[p].p_receiver_id
              n == Len(transactions) + 1
          IN (client[p].pc = "create_write" /\ client'[p].result = "ok")
             => UnreadCount(users'[r], n) > UnreadCount(users[r], n)
     /\ \A p \in Clients :
          LET id  == client[p].p_transaction_id
              s   == transactions[id].sender_id
              r   == transactions[id].receiver_id
              new == client[p].p_new_status
              who == CASE new = "accepted"  -> {s}
                       [] new = "completed" -> {r}
                       [] new = "cancelled" -> {s, r}
                       [] OTHER             -> {}
          IN (WriteStep(p) /\ client'[p].result = "ok")
             => \A u \in who : UnreadCount(users'[u], id) > UnreadCount(users[u], id)
     /\ (sweep.pc = "loop" /\ sweep'.pc = "idle")
        => \A id \in SweepOpenTx :
             \A u \in {transactions[id].sender_id, transactions[id].receiver_id} :
               UnreadCount(users'[u], id) > UnreadCount(users[u], id)]_vars

\* C25 witness: a transaction has been created, accepted and completed, and
\* its id is on the unread lists of both parties.
C25_Witness ==
  \E id \in DOMAIN transactions :
    /\ transactions[id].status = "completed"
    /\ UnreadCount(users[transactions[id].sender_id], id) > 0
    /\ UnreadCount(users[transactions[id].receiver_id], id) > 0

\* C26: no transaction id is on a user's unread list more than once.
C26_UnreadIsSet ==
  \A u \in Users : \A id \in DOMAIN transactions : UnreadCount(users[u], id) <= 1

\* What a cancel does to the rows it finds: the status and cancelled_at of
\* the transaction, the sender's balance and escrow_balance, and one entry on
\* the unread lists of both parties, two when the status changes.
CancelledRows(u, txs, id, t) ==
  LET s  == txs[id].sender_id
      r  == txs[id].receiver_id
      a  == txs[id].amount
      k  == IF txs[id].status = "cancelled" THEN <<id>> ELSE <<id, id>>
  IN [transactions |-> [txs EXCEPT ![id].status = "cancelled",
                                   ![id].cancelled_at = t],
      users |-> [x \in DOMAIN u |->
                   IF x = s
                     THEN [u[x] EXCEPT !.balance = @ + a,
                                       !.escrow_balance = @ - a,
                                       !.unread_transactions = @ \o k]
                     ELSE IF x = r
                       THEN [u[x] EXCEPT !.unread_transactions = @ \o k]
                       ELSE u[x]]]

RECURSIVE CancelledRowsAll(_, _, _, _)
CancelledRowsAll(u, txs, ids, t) ==
  IF ids = <<>>
    THEN [users |-> u, transactions |-> txs]
    ELSE LET out == CancelledRows(u, txs, Head(ids), t)
         IN CancelledRowsAll(out.users, out.transactions, Tail(ids), t)

\* A handler hands an event to the notification manager in this step.
Emits(p) == client'[p].notified # "none" /\ client'[p] # client[p]

\* C27: when the notification call of a handler throws after its awaited
\* write succeeded, the handler goes on as after a notification that was
\* sent: the change stays applied, nothing else is written and the handler
\* does not report a failure.
C27_NotificationFailureSwallowed ==
  [][\A p \in Clients :
       Emits(p) /\ client'[p].notified = "failed"
         => /\ client'[p].result # "Failed"
            /\ \A u \in Users :
                 /\ users'[u].balance = users[u].balance
                 /\ users'[u].escrow_balance = users[u].escrow_balance
            /\ IF client[p].pc = "mark_write"
                 THEN /\ transactions' =
                           [transactions EXCEPT
                              ![client[p].p_transaction_id].conditions =
                                 client[p].p_conditions]
                      /\ AllConditionsMet(client[p].p_conditions)
                           => client'[p].pc = "mark_complete"
                 ELSE /\ transactions' = transactions
                      /\ client'[p].result = "ok"]_vars

\* C27 witness: a cancelled transaction and a handler that has ended without
\* failure although its notification call threw.
C27_Witness ==
  /\ \E id \in DOMAIN transactions : transactions[id].status = "cancelled"
  /\ \E p \in Clients :
       /\ client[p].pc = "done"
       /\ client[p].notified = "failed"
       /\ client[p].result = "ok"

\* C28: a handler hands an event to the notification manager only after a
\* call that changed the transaction, and every checklist update that
\* changed the conditions hands one over.
C28_OneEventPerChange ==
  [][\A p \in Clients :
       /\ Emits(p) /\ client[p].pc # "mark_write" => client[p].pc = "done"
       /\ /\ client[p].pc = "mark_write"
          /\ client'[p].pc # "mark_write"
          /\ transactions' # transactions
          => client'[p].notified # "none"]_vars

\* The loop of a generator ends in this step.
Generated(p, from) == client[p].pc = from /\ client'[p].pc # from

\* C29: generate_vid and generate_vtid end only with a code that no stored
\* user, respectively transaction, has at the check, and go round again on
\* a code that one has; after every step no two users have the same vault_id
\* and no two transactions the same vtid.
C29_CodesUnique ==
  [][/\ \A p \in Clients :
          /\ Generated(p, "generate_vid")
               => \A i \in 1..Len(users) : users[i] # client'[p].new_vid
          /\ Generated(p, "generate_vtid")
               => \A i \in 1..Len(transactions) :
                    transactions[i] # client'[p].new_vtid
          /\ /\ client[p].pc = "generate_vid"
             /\ client'[p].pc = "generate_vid"
             /\ client'[p] # client[p]
             => \E i \in 1..Len(users) : users[i] = client'[p].new_vid
          /\ /\ client[p].pc = "generate_vtid"
             /\ client'[p].pc = "generate_vtid"
             /\ client'[p] # client[p]
             => \E i \in 1..Len(transactions) :
                  transactions[i] = client'[p].new_vtid
     /\ \A i, j \in 1..Len(users') : users'[i] = users'[j] => i = j
     /\ \A i, j \in 1..Len(transactions') :
          transactions'[i] = transactions'[j] => i = j]_vars

\* C29 witness: two users and a transaction are stored, an insert has
\* failed on a UNIQUE constraint and a generator is going round again after
\* a code that was taken.
C29_Witness ==
  /\ Len(users) >= 2
  /\ Len(transactions) >= 1
  /\ \E p \in Clients : client[p].result = "unique_violation"
  /\ \E p \in Clients :
       \/ client[p].pc = "generate_vid" /\ client[p].vid_exists
       \/ client[p].pc = "generate_vtid" /\ client[p].vtid_exists

\* C30: a cancellation by the sweep changes status, cancelled_at, balances,
\* escrow balances and unread lists exactly as a client's cancel of the same
\* transaction does.
C30_OneCancellationPath ==
  [][/\ \A p \in Clients :
          (WriteStep(p) /\ client[p].p_new_status = "cancelled")
            => LET out == CancelledRows(users, transactions,
                                        client[p].p_transaction_id, now)
               IN users' = out.users /\ transactions' = out.transactions
     /\ (sweep.pc = "loop" /\ sweep'.pc = "idle")
        => LET out == CancelledRowsAll(users, transactions, sweep.done, now)
           IN users' = out.users /\ transactions' = out.transactions]_vars

\* C30 witness: one transaction was cancelled in the hour of its creation,
\* another after its deadline; each sender has the amount back and the two
\* ids are on the unread lists equally often.
C30_Witness ==
  /\ Len(transactions) = 2
  /\ transactions[1].status = "cancelled"
  /\ transactions[2].status = "cancelled"
  /\ transactions[1].cancelled_at = transactions[1].created_at
  /\ transactions[2].cancelled_at > transactions[2].created_at + transactions[2].time_limit
  /\ \A u \in Users :
       /\ users[u].escrow_balance = 0
       /\ users[u].balance = InitBalance
       /\ UnreadCount(users[u], 1) = UnreadCount(users[u], 2)
\* C31: a push goes out to a user only when at least 30 seconds have passed
\* since the last push to that user, and NotificationManager hands a
\* notification to sendPushNotification only when the cooldown of its
\* priority has passed since the last one of its type to its user.
C31_RateLimited ==
  [][/\ \A id \in CallIds :
          id \in service'.pushed \ service.pushed
            => now - service.dispatched[CallOf(id).userId] >= 30
     /\ manager'.sent # manager.sent
          => LET n == manager'.notification
             IN now - manager.userLastNotified[n.userId][n.type]
                  >= PRIORITY_COOLDOWNS(n.priority)]_vars

\* C31 witness: a push has gone out, another one waits for its setTimeout
\* after being skipped, and a notification has been put back in the queue.
C31_Witness ==
  /\ service.pushed # {}
  /\ \E c \in service.calls : c.pc = "timer"
  /\ \E i \in 1..Len(manager.queue) : manager.queue[i].attempts > 0

\* The notification a run of processQueue takes out of the queue.
Taken ==
  CHOOSE x \in SeqToSet(manager.queue) :
    \A i \in 1..Len(manager'.queue) : manager'.queue[i] # x

\* C32: processQueue takes a notification of the highest priority in the
\* queue and, among those, of the oldest timestamp; none is handed to
\* sendPushNotification while one of a higher priority is in the queue.
C32_HighestPriorityFirst ==
  [][/\ manager.pc = "run" /\ manager.queue # <<>>
          => \A i \in 1..Len(manager.queue) :
               LET y == manager.queue[i]
               IN /\ priorityOrder(y.priority) >= priorityOrder(Taken.priority)
                  /\ y.priority = Taken.priority
                       => y.timestamp >= Taken.timestamp
     /\ manager'.sent # manager.sent
          => \A i \in 1..Len(manager'.queue) :
               priorityOrder(manager'.queue[i].priority)
                 >= priorityOrder(manager'.notification.priority)]_vars

\* C32 witness: a notification is being sent while one of a lower priority,
\* queued before it, is still in the queue.
C32_Witness ==
  /\ manager.pc = "sending"
  /\ \E i \in 1..Len(manager.queue) :
       /\ manager.queue[i].id < manager.notification.id
       /\ priorityOrder(manager.queue[i].priority)
            > priorityOrder(manager.notification.priority)

\* C33: no notification is put back in the queue more than maxRetries
\* times, one that cannot be sent after that is dropped, and processQueue
\* ends: from some time on the queue is empty and processing is false.
C33_RetriesBoundedAndQueueDrains ==
  /\ [][/\ \A i \in 1..Len(manager'.queue) :
             manager'.queue[i].attempts <= maxRetries
        /\ \A id \in manager'.dropped \ manager.dropped :
             \E i \in 1..Len(manager.queue) :
               /\ manager.queue[i].id = id
               /\ manager.queue[i].attempts = maxRetries]_vars
  /\ <>[](manager.queue = <<>> /\ ~manager.processing)

\* C33 witness: a notification has been dropped and the queue is empty with
\* processing false.
C33_Witness ==
  /\ manager.dropped # {}
  /\ manager.queue = <<>>
  /\ ~manager.processing

\* Notification id is in the queue after a deferral and its cooldown is over.
DeferredAndFree(id) ==
  \E i \in 1..Len(manager.queue) :
    LET x == manager.queue[i]
    IN /\ x.id = id
       /\ x.attempts > 0
       /\ now - manager.userLastNotified[x.userId][x.type]
            >= PRIORITY_COOLDOWNS(x.priority)

\* C34: a notification that was deferred and whose cooldown is over while it
\* is in the queue is sent in the end.
C34_DeferredEventuallySent ==
  \A id \in 1..MaxNotifications :
    DeferredAndFree(id) ~> (id \in manager.sent)

Awaited == {c \in service.calls : c.awaited}

\* C36: between the steps of the app at most one chain of processQueue is
\* under way (one awaited send or one pending pause, never both, never two),
\* a chain under way has processing true, and a queue that is not empty has
\* a chain under way.
C36_OneChain ==
  Quiet =>
    /\ Cardinality(Awaited) <= 1
    /\ (manager.pc = "sending") = (Awaited # {})
    /\ (manager.pc \in {"sending", "pause"}) = manager.processing
    /\ manager.queue # <<>> => manager.processing

\* C36 witness: notifications were queued during a send and during the
\* pause that follows it.
C36_Witness ==
  /\ manager.pc = "pause"
  /\ manager.processing
  /\ Len(manager.queue) >= 2

\* C37: in every state of the auth store isAuthenticated is true exactly
\* when user is not null.
C37_AuthenticatedIffUser == auth.isAuthenticated = (auth.user # 0)

\* C38: a call of signIn or login during a cooldown returns with the store
\* as it was and no request to the auth service; a rate-limit error sets the
\* cooldown to 60; the cooldown is never negative, changes only by one
\* second less or to 60, and reaches 0.
C38_Cooldown ==
  /\ [][/\ \A f \in Credentials :
             auth.cooldown > 0 /\ AuthRequest(f) => auth' = auth
        /\ \A f \in Credentials :
             auth.cooldown > 0 /\ auth.pc[f] = "idle" => auth'.pc[f] = "idle"
        /\ \A f \in Credentials :
             AuthAnswer(f, "rate limit") => auth'.cooldown = RateLimitCooldown
        /\ auth'.cooldown \in {auth.cooldown, auth.cooldown - 1, RateLimitCooldown}
        /\ auth'.cooldown >= 0]_vars
  /\ (auth.cooldown > 0) ~> (auth.cooldown = 0)

\* C38 witness: a cooldown set by a rate-limit error has run down to 0, its
\* setInterval not yet cleared, and signIn or login was called after it.
C38_Witness ==
  /\ auth.cooldown = 0
  /\ auth.intervals > 0
  /\ ops >= 2
  /\ \A f \in Credentials : auth.pc[f] = "idle"

\* The ids on the unread list of user who.
UnreadIds(u, who) == SeqToSet(u[who].unread_transactions)

\* C39: no step of the send handler or of the accept handler, the calls they
\* await included, takes an id off a user's unread list.
C39_UnreadKept ==
  [][\A p \in Clients :
       client[p].handler \in {"send", "accept"} /\ client'[p] # client[p]
         => \A who \in Users : UnreadIds(users, who) \subseteq UnreadIds(users', who)]_vars

\* C40: after every step device_tokens has at most one row of a user and
\* token, a call that ends returns the id of the row of its user and token
\* and no error, and a call for a pair that has a row leaves the number of
\* rows as it is.
C40_OneRowAndIdReturned ==
  [][\A p \in Clients :
       LET c == device_tokens.calls[p]
       IN /\ \A userId \in Users, token \in Tokens :
               Cardinality(TokenRows(device_tokens'.rows, userId, token)) <= 1
          /\ c.pc = "write" /\ device_tokens'.calls[p].pc = "idle"
               => /\ device_tokens'.calls[p].result # SaveError
                  /\ device_tokens'.calls[p].result
                       \in TokenRows(device_tokens'.rows, c.p_user_id, c.p_token)
                  /\ TokenRows(device_tokens.rows, c.p_user_id, c.p_token) # {}
                       => Len(device_tokens'.rows) = Len(device_tokens.rows)]_vars

====
